---- MODULE Spec2Model ----
(***************************************************************************)
(* SpeechFeatureVectorizer.py as a state machine: process_directory,       *)
(* extract_features and band_limit_segment, one action per statement group.*)
(*                                                                         *)
(* Numbers.  Times, frequencies, powers and the centroid are exact         *)
(* rationals [n, d].  An RMS energy is a decimal power m * 10^e with       *)
(* m \in {0, 1}, so that log10 is exact.  Samples and spectral cells are   *)
(* small integers.                                                         *)
(*                                                                         *)
(* librosa.  The transforms are opaque: what stft, istft, effects.harmonic *)
(* and feature.rms return for a non-silent signal is fixed per run by the  *)
(* record lib, drawn in the initial state; a silent (all-zero) signal maps *)
(* to silence, as every one of them is linear or homogeneous.  Shapes      *)
(* (bins, frames, lengths) and the n_fft < 4 failure follow the library.   *)
(***************************************************************************)
EXTENDS Integers, Sequences, FiniteSets, TLC

\* ------------------------------------------------------------- bounds
MaxLen == 9          \* samples in a loaded audio file
MaxIntervals == 2    \* intervals in a tier
MaxFiles == 2        \* entries in the TextGrid directory listing
MaxMag == 1          \* spectral cells are -1..MaxMag
MaxAmp == 2          \* peak amplitude of a reconstructed signal
MaxDecade == 3       \* RMS energies reach 10^(RmsFloorExp + MaxDecade)

\* -------------------------------------------------- program constants
BandNfft == 2048         \* n_fft of the band limiter
CogNfft == 512           \* n_fft of the centroid transform
SilenceDb == -80         \* intensity fallback
HnrCapDb == 20           \* upper clamp of hnr
RmsFloorExp == -10       \* the 1e-10 floor of rms_harm and rms_noise
DefaultMinFreq == 0
DefaultMaxFreq == 8000
DefaultLpCutoff == 500
ZcrFrameLength == 2048   \* frame_length default of zero_crossing_rate

\* ----------------------------------------------------------- rationals
Abs(x) == IF x < 0 THEN -x ELSE x

Min(a, b) == IF a <= b THEN a ELSE b

Max(a, b) == IF a >= b THEN a ELSE b

RECURSIVE GCD(_, _)
GCD(a, b) == IF b = 0 THEN a ELSE GCD(b, a % b)

\* n/d in lowest terms, d > 0
R(n, d) ==
    LET g == GCD(Abs(n), Abs(d))
        s == IF d < 0 THEN -1 ELSE 1
    IN  [n |-> (s * n) \div g, d |-> (s * d) \div g]

RInt(k) == [n |-> k, d |-> 1]

RAdd(a, b) == R(a.n * b.d + b.n * a.d, a.d * b.d)

RSub(a, b) == R(a.n * b.d - b.n * a.d, a.d * b.d)

RMul(a, b) == R(a.n * b.n, a.d * b.d)

RDiv(a, b) == R(a.n * b.d, a.d * b.n)

RLe(a, b) == a.n * b.d <= b.n * a.d

RLt(a, b) == a.n * b.d < b.n * a.d

RMin(a, b) == IF RLe(a, b) THEN a ELSE b

RECURSIVE RSum(_)
RSum(s) == IF s = <<>> THEN RInt(0) ELSE RAdd(Head(s), RSum(Tail(s)))

\* --------------------------------------------- decimal powers (RMS values)
Zero == [m |-> 0, e |-> 0]

Pow10(e) == [m |-> 1, e |-> e]

\* a < b
SciLt(a, b) == IF b.m = 0 THEN FALSE ELSE IF a.m = 0 THEN TRUE ELSE a.e < b.e

\* np.log10 of a positive value
Log10(x) == x.e

\* a / b, both positive
SciDiv(a, b) == Pow10(a.e - b.e)

\* ------------------------------------------------------ Python built-ins
Whitespace == {" ", "\t", "\n"}

RECURSIVE LStrip(_)
LStrip(s) == IF s # <<>> /\ Head(s) \in Whitespace THEN LStrip(Tail(s)) ELSE s

RECURSIVE RStrip(_)
RStrip(s) ==
    IF s # <<>> /\ s[Len(s)] \in Whitespace
    THEN RStrip(SubSeq(s, 1, Len(s) - 1))
    ELSE s

\* str.strip() on a label, a sequence of characters
Strip(s) == RStrip(LStrip(s))

\* int(x): truncation toward zero
Trunc(x) == IF x.n >= 0 THEN x.n \div x.d ELSE -((-x.n) \div x.d)

\* round(x): to the nearest integer, ties to the even one
Round(x) ==
    LET f == x.n \div x.d
        r == x.n - f * x.d
    IN  IF 2 * r < x.d THEN f
        ELSE IF 2 * r > x.d THEN f + 1
        ELSE IF f % 2 = 0 THEN f ELSE f + 1

\* the index a slice bound i denotes in an array of n elements
SliceIndex(i, n) == IF i < 0 THEN Max(i + n, 0) ELSE Min(i, n)

\* y[a:b] as a view of an array of n elements: the half-open range it covers
Slice(n, a, b) ==
    LET lo == SliceIndex(a, n)
        hi == SliceIndex(b, n)
    IN  [lo |-> lo, hi |-> Max(lo, hi)]

\* the samples a view covers
ViewOf(arr, v) == SubSeq(arr, v.lo + 1, v.hi)

\* ---------------------------------------------------------------- state
VARIABLES
    dir,        \* os.listdir(textgrid_dir): file names, each <<stem, extension>>
    wavs,       \* sound_dir: stem -> [y, sr] of the .wav files that exist
    grids,      \* textgrid_dir: stem -> the intervals of the tier of a .TextGrid
    args,       \* [min_freq, max_freq, lp_cutoff]
    lib,        \* what the librosa transforms return for a non-silent signal
    pc,         \* position in the program
    out,        \* the rows written to results_file
    fidx,       \* process_directory: index in dir of the current file name, 0 outside
    wav_file,   \* extract_features: stem of the audio file
    y,          \* extract_features: the loaded samples
    sr,         \* extract_features: the sample rate
    effective_max_freq,
    intervals,  \* extract_features: tier.intervals
    idx,        \* extract_features: index of the current interval
    results,    \* extract_features: the tuples appended so far
    loc,        \* extract_features: the loop body's local variables
    bl          \* band_limit_segment: its local variables while it runs

vars == <<dir, wavs, grids, args, lib, pc, out, fidx, wav_file, y, sr,
          effective_max_freq, intervals, idx, results, loc, bl>>

env == <<dir, wavs, grids, args, lib>>

\* ---------------------------------------------------------------- arrays
Silent(sig) == \A i \in DOMAIN sig : sig[i] = 0

RECURSIVE PeakUpTo(_, _)
PeakUpTo(sig, i) == IF i = 0 THEN 0 ELSE Max(Abs(sig[i]), PeakUpTo(sig, i - 1))

Peak(sig) == PeakUpTo(sig, Len(sig))

Sign(x) == IF x < 0 THEN -1 ELSE IF x > 0 THEN 1 ELSE 0

SilentFrame(frame) == \A k \in DOMAIN frame : Silent(frame[k])

\* -------------------------------------------------------------- librosa
\* stft's default hop_length is n_fft // 4, and a hop of 0 is an error
StftFails(n_fft) == n_fft \div 4 < 1

\* librosa.stft(sig, n_fft=n_fft): 1 + n_fft // 2 bins, 1 + len // hop frames
Stft(sig, n_fft) ==
    LET hop == n_fft \div 4
        frames == 1 + Len(sig) \div hop
        cell(k, t) ==
            IF Silent(sig) THEN 0
            ELSE IF t % 2 = 1 THEN lib.cellA[k] ELSE lib.cellB[k]
    IN  [k \in 0..(n_fft \div 2) |-> [t \in 1..frames |-> cell(k, t)]]

\* librosa.fft_frequencies(sr=sr, n_fft=n_fft): bin k is at k * sr / n_fft
FftFrequencies(rate, n_fft) == [k \in 0..(n_fft \div 2) |-> R(k * rate, n_fft)]

\* librosa.istft(frame): n_fft is inferred as 2 * (bins - 1), hop as n_fft // 4
Istft(frame) ==
    LET n == 2 * (Cardinality(DOMAIN frame) - 1)
        frames == Len(frame[0])
        len == (n \div 4) * (frames - 1)
    IN  [i \in 1..len |->
            IF SilentFrame(frame) THEN 0
            ELSE IF i % 2 = 1 THEN lib.amp ELSE -lib.amp]

\* librosa.effects.harmonic(sig): the harmonic component, of sig's length
Harmonic(sig) == [i \in DOMAIN sig |-> Sign(sig[i]) * Min(lib.share, Abs(sig[i]))]

\* librosa.feature.rms(y=sig).mean()
Rms(sig) == IF Silent(sig) THEN Zero ELSE Pow10(lib.level[Peak(sig)])

\* sign changes between adjacent samples (0 counts as positive)
RECURSIVE Crossings(_, _)
Crossings(sig, i) ==
    IF i <= 1 THEN 0
    ELSE Crossings(sig, i - 1)
         + (IF (sig[i - 1] < 0) # (sig[i] < 0) THEN 1 ELSE 0)

\* librosa.feature.zero_crossing_rate(y=sig).mean(), sig shorter than a hop
ZeroCrossingRate(sig) == R(Crossings(sig, Len(sig)), ZcrFrameLength)

\* math.log1p(x), defined for x > -1; kept symbolic
Log1p(x) == [log1p |-> x]

\* --------------------------------------------------- band_limit_segment
\* n_fft_value = min(requested, len(segment))
NfftValue(requested, len) == Min(requested, len)

\* nyquist = sr / 2; effective_cutoff = min(lp_cutoff, nyquist)
EffectiveCutoff(lp_cutoff, rate) == RMin(RInt(lp_cutoff), R(rate, 2))

\* freqs < effective_cutoff in the place of freqs <= effective_cutoff
BandMaskStrict(freqs, cutoff) == [k \in DOMAIN freqs |-> RLt(freqs[k], cutoff)]

\* freq_mask = (freqs <= effective_cutoff)
BandMask(freqs, cutoff) == [k \in DOMAIN freqs |-> RLe(freqs[k], cutoff)]

\* stft_complex[~freq_mask, :] = 0.0
ZeroOut(frame, mask) ==
    [k \in DOMAIN frame |->
        [t \in DOMAIN frame[k] |-> IF ~mask[k] THEN 0 ELSE frame[k][t]]]

\* ----------------------------------------------------- extract_features
\* round(time * sr) in the place of int(time * sr)
SampleIndexRounded(time, rate) == Round(RMul(time, RInt(rate)))

\* int(time * sr)
SampleIndex(time, rate) == Trunc(RMul(time, RInt(rate)))

\* the 1e-10 floor of the HNR in the place of the -80 fallback
IntensityFloored(rms_lp) ==
    IF SciLt(Zero, rms_lp) THEN 10 * Log10(rms_lp) ELSE 10 * RmsFloorExp

\* 10 * log10(rms_lp) if rms_lp > 0, else -80
Intensity(rms_lp) == IF SciLt(Zero, rms_lp) THEN 10 * Log10(rms_lp) ELSE SilenceDb

\* if rms < 1e-10: rms = 1e-10
FloorRms(rms) == IF SciLt(rms, Pow10(RmsFloorExp)) THEN Pow10(RmsFloorExp) ELSE rms

\* no clamp
CapHnrMissing(hnr) == hnr

\* if hnr > 20: hnr = 20
CapHnr(hnr) == IF hnr > HnrCapDb THEN HnrCapDb ELSE hnr

\* hnr = 10 * log10(rms_harm / rms_noise), then capped
Hnr(rms_harm, rms_noise) == CapHnr(10 * Log10(SciDiv(rms_harm, rms_noise)))

\* the band-limited segment in the place of the unfiltered one
ZcrInputFiltered(l, samples) == l.segment_lp

\* the signal zero_crossing_rate is given: the unfiltered segment
ZcrInput(l, samples) == ViewOf(samples, l.segment)

\* the lower bound of the mask left out
CogMaskNoLower(freqs, min_freq, max_eff) ==
    [k \in DOMAIN freqs |-> RLe(freqs[k], max_eff)]

\* the upper bound of the mask left out
CogMaskNoUpper(freqs, min_freq, max_eff) ==
    [k \in DOMAIN freqs |-> RLe(RInt(min_freq), freqs[k])]

\* freq_mask = (freqs >= min_freq) & (freqs <= effective_max_freq)
CogMask(freqs, min_freq, max_eff) ==
    [k \in DOMAIN freqs |-> RLe(RInt(min_freq), freqs[k]) /\ RLe(freqs[k], max_eff)]

\* the bins a mask selects, in ascending order
RECURSIVE SelectedFrom(_, _, _)
SelectedFrom(mask, k, last) ==
    IF k > last THEN <<>>
    ELSE (IF mask[k] THEN <<k>> ELSE <<>>) \o SelectedFrom(mask, k + 1, last)

Selected(mask) == SelectedFrom(mask, 0, Cardinality(DOMAIN mask) - 1)

RECURSIVE SumTo(_, _)
SumTo(row, t) == IF t = 0 THEN 0 ELSE row[t] + SumTo(row, t - 1)

\* np.mean(row) ** 2
MeanSquared(row) ==
    LET mean == R(SumTo(row, Len(row)), Len(row)) IN RMul(mean, mean)

\* power_spectrum = np.mean(filtered_stft, axis=1)**2
PowerSpectrum(filtered_stft) ==
    [i \in DOMAIN filtered_stft |-> MeanSquared(filtered_stft[i])]

\* ndarray.size of a two-dimensional array
Size(m) == IF m = <<>> THEN 0 ELSE Len(m) * Len(m[1])

\* lines 124-132: the centroid of the selected bins, 0.0 without bins or power
Centroid(filtered_stft, filtered_freqs) ==
    IF Size(filtered_stft) = 0 THEN RInt(0)
    ELSE LET power_spectrum == PowerSpectrum(filtered_stft)
             total_power == RSum(power_spectrum)
             weighted == [i \in DOMAIN power_spectrum |->
                             RMul(filtered_freqs[i], power_spectrum[i])]
         IN  IF RLe(total_power, RInt(0)) THEN RInt(0)
             ELSE RDiv(RSum(weighted), total_power)

\* ---------------------------------------------------- process_directory
Header == <<"participant", "word", "intensity", "hnr", "duration", "zcr", "cog", "cog_log">>

\* f"{x:.<digits>f}"; kept symbolic
Fixed(x, digits) == [value |-> x, digits |-> digits]

\* the row f.write() gets for one result
Row(r) ==
    <<r[1], r[2], Fixed(r[3], 1), Fixed(r[4], 1), Fixed(r[5], 4),
      Fixed(r[6], 4), Fixed(r[7], 2), Fixed(r[8], 3)>>

\* a loop that stops one result short
RowsOfButLast(res) == [i \in 1..(Len(res) - 1) |-> Row(res[i])]

\* for result in results: f.write(...)
RowsOf(res) == [i \in DOMAIN res |-> Row(res[i])]

\* -------------------------------------------------------------- actions
None == "none"

NoLocals ==
    [label |-> None, start_time |-> None, end_time |-> None,
     start_sample |-> None, end_sample |-> None, segment |-> None,
     segment_lp |-> None, rms_lp |-> None, intensity |-> None,
     harmonic_lp |-> None, residual_lp |-> None, rms_harm |-> None,
     rms_noise |-> None, hnr |-> None, duration |-> None, zcr |-> None,
     n_fft_value |-> None, stft_mag |-> None, freqs |-> None,
     cog |-> None, cog_log |-> None]

\* extract_features, lines 53-62
Load ==
    /\ pc = "load"
    /\ y' = wavs[wav_file].y
    /\ sr' = wavs[wav_file].sr
    /\ effective_max_freq' = RMin(RInt(args.max_freq), R(sr', 2))
    /\ intervals' = grids[wav_file]
    /\ results' = <<>>
    /\ idx' = 0
    /\ pc' = "loop"
    /\ UNCHANGED <<env, out, fidx, wav_file, loc, bl>>

\* lines 64-66, a label that is blank once stripped: the next interval
SkipBlank ==
    /\ pc = "loop"
    /\ idx < Len(intervals)
    /\ Strip(intervals[idx + 1].text) = <<>>
    /\ idx' = idx + 1
    /\ UNCHANGED <<env, pc, out, fidx, wav_file, y, sr, effective_max_freq,
                   intervals, results, loc, bl>>

\* lines 64-73, a labelled interval: its segment
TakeInterval ==
    /\ pc = "loop"
    /\ idx < Len(intervals)
    /\ LET interval == intervals[idx + 1]
           start_sample == SampleIndex(interval.start_time, sr)
           end_sample == SampleIndex(interval.end_time, sr)
       IN  /\ Strip(interval.text) # <<>>
           /\ loc' = [loc EXCEPT !.label = interval.text,
                                 !.start_time = interval.start_time,
                                 !.end_time = interval.end_time,
                                 !.start_sample = start_sample,
                                 !.end_sample = end_sample,
                                 !.segment = Slice(Len(y), start_sample, end_sample)]
    /\ idx' = idx + 1
    /\ pc' = "band_stft"
    /\ UNCHANGED <<env, out, fidx, wav_file, y, sr, effective_max_freq,
                   intervals, results, bl>>

\* band_limit_segment, lines 20-24, when librosa.stft raises
BandStftRaises ==
    /\ pc = "band_stft"
    /\ StftFails(NfftValue(BandNfft, Len(ViewOf(y, loc.segment))))
    /\ pc' = "raised"
    /\ UNCHANGED <<env, out, fidx, wav_file, y, sr, effective_max_freq,
                   intervals, idx, results, loc, bl>>

\* band_limit_segment, lines 20-24
BandStft ==
    /\ pc = "band_stft"
    /\ LET segment == ViewOf(y, loc.segment)
           n_fft_value == NfftValue(BandNfft, Len(segment))
       IN  /\ ~StftFails(n_fft_value)
           /\ bl' = [n_fft_value |-> n_fft_value,
                     stft_complex |-> Stft(segment, n_fft_value),
                     freqs |-> FftFrequencies(sr, n_fft_value),
                     effective_cutoff |-> None]
    /\ pc' = "band_mask"
    /\ UNCHANGED <<env, out, fidx, wav_file, y, sr, effective_max_freq,
                   intervals, idx, results, loc>>

\* band_limit_segment, lines 26-33
BandZero ==
    /\ pc = "band_mask"
    /\ LET effective_cutoff == EffectiveCutoff(args.lp_cutoff, sr)
           freq_mask == BandMask(bl.freqs, effective_cutoff)
       IN  bl' = [bl EXCEPT !.effective_cutoff = effective_cutoff,
                            !.stft_complex = ZeroOut(bl.stft_complex, freq_mask)]
    /\ pc' = "band_istft"
    /\ UNCHANGED <<env, out, fidx, wav_file, y, sr, effective_max_freq,
                   intervals, idx, results, loc>>

\* band_limit_segment, lines 36-37, and the assignment of line 78
BandReturn ==
    /\ pc = "band_istft"
    /\ loc' = [loc EXCEPT !.segment_lp = Istft(bl.stft_complex)]
    /\ bl' = None
    /\ pc' = "intensity"
    /\ UNCHANGED <<env, out, fidx, wav_file, y, sr, effective_max_freq,
                   intervals, idx, results>>

\* lines 81-85
IntensityStep ==
    /\ pc = "intensity"
    /\ LET rms_lp == Rms(loc.segment_lp)
       IN  loc' = [loc EXCEPT !.rms_lp = rms_lp, !.intensity = Intensity(rms_lp)]
    /\ pc' = "hnr"
    /\ UNCHANGED <<env, out, fidx, wav_file, y, sr, effective_max_freq,
                   intervals, idx, results, bl>>

\* lines 88-101
HnrStep ==
    /\ pc = "hnr"
    /\ LET harmonic_lp == Harmonic(loc.segment_lp)
           residual_lp == [i \in DOMAIN loc.segment_lp |->
                              loc.segment_lp[i] - harmonic_lp[i]]
           rms_harm == FloorRms(Rms(harmonic_lp))
           rms_noise == FloorRms(Rms(residual_lp))
       IN  loc' = [loc EXCEPT !.harmonic_lp = harmonic_lp,
                             !.residual_lp = residual_lp,
                             !.rms_harm = rms_harm,
                             !.rms_noise = rms_noise,
                             !.hnr = Hnr(rms_harm, rms_noise)]
    /\ pc' = "zcr"
    /\ UNCHANGED <<env, out, fidx, wav_file, y, sr, effective_max_freq,
                   intervals, idx, results, bl>>

\* lines 106-111
DurationZcr ==
    /\ pc = "zcr"
    /\ loc' = [loc EXCEPT !.duration = RSub(loc.end_time, loc.start_time),
                          !.zcr = ZeroCrossingRate(ZcrInput(loc, y))]
    /\ pc' = "cog_stft"
    /\ UNCHANGED <<env, out, fidx, wav_file, y, sr, effective_max_freq,
                   intervals, idx, results, bl>>

\* lines 116-118
CogStft ==
    /\ pc = "cog_stft"
    /\ LET segment == ViewOf(y, loc.segment)
           n_fft_value == NfftValue(CogNfft, Len(segment))
       IN  IF StftFails(n_fft_value)
           THEN pc' = "raised" /\ loc' = loc
           ELSE /\ pc' = "cog"
                /\ LET stft == Stft(segment, n_fft_value)
                   IN  loc' = [loc EXCEPT
                           !.n_fft_value = n_fft_value,
                           !.stft_mag = [k \in DOMAIN stft |->
                               [t \in DOMAIN stft[k] |-> Abs(stft[k][t])]],
                           !.freqs = FftFrequencies(sr, n_fft_value)]
    /\ UNCHANGED <<env, out, fidx, wav_file, y, sr, effective_max_freq,
                   intervals, idx, results, bl>>

\* lines 120-136
CogStep ==
    /\ pc = "cog"
    /\ LET freq_mask == CogMask(loc.freqs, args.min_freq, effective_max_freq)
           sel == Selected(freq_mask)
           filtered_stft == [i \in DOMAIN sel |-> loc.stft_mag[sel[i]]]
           filtered_freqs == [i \in DOMAIN sel |-> loc.freqs[sel[i]]]
           cog == Centroid(filtered_stft, filtered_freqs)
       IN  IF RLe(cog, RInt(-1))
           THEN pc' = "raised" /\ loc' = [loc EXCEPT !.cog = cog]
           ELSE /\ pc' = "append"
                /\ loc' = [loc EXCEPT !.cog = cog, !.cog_log = Log1p(cog)]
    /\ UNCHANGED <<env, out, fidx, wav_file, y, sr, effective_max_freq,
                   intervals, idx, results, bl>>

\* lines 141-151
AppendResult ==
    /\ pc = "append"
    /\ results' = Append(results,
            <<wav_file, loc.label, loc.intensity, loc.hnr, loc.duration,
              loc.zcr, loc.cog, loc.cog_log>>)
    /\ pc' = "loop"
    /\ UNCHANGED <<env, out, fidx, wav_file, y, sr, effective_max_freq,
                   intervals, idx, loc, bl>>

\* line 153; to line 181 when process_directory made the call
Return ==
    /\ pc = "loop"
    /\ idx = Len(intervals)
    /\ pc' = IF fidx > 0 THEN "write" ELSE "returned"
    /\ UNCHANGED <<env, out, fidx, wav_file, y, sr, effective_max_freq,
                   intervals, idx, results, loc, bl>>

ExtractFeatures ==
    \/ Load
    \/ SkipBlank
    \/ TakeInterval
    \/ BandStftRaises
    \/ BandStft
    \/ BandZero
    \/ BandReturn
    \/ IntensityStep
    \/ HnrStep
    \/ DurationZcr
    \/ CogStft
    \/ CogStep
    \/ AppendResult
    \/ Return

\* process_directory, lines 163-165
OpenResults ==
    /\ pc = "open"
    /\ out' = <<Header>>
    /\ pc' = "listdir"
    /\ UNCHANGED <<env, fidx, wav_file, y, sr, effective_max_freq,
                   intervals, idx, results, loc, bl>>

\* filename.endswith(".TextGrid")
IsTextGrid(filename) == filename[2] = ".TextGrid"

\* os.path.exists(os.path.join(sound_dir, filename.replace(".TextGrid", ".wav")))
HasAudio(filename) == filename[1] \in DOMAIN wavs

\* lines 167-168, a file name that does not end in .TextGrid
SkipOtherFile ==
    /\ pc = "listdir"
    /\ fidx < Len(dir)
    /\ ~IsTextGrid(dir[fidx + 1])
    /\ fidx' = fidx + 1
    /\ UNCHANGED <<env, pc, out, wav_file, y, sr, effective_max_freq,
                   intervals, idx, results, loc, bl>>

\* lines 167-172, a .TextGrid without its .wav
SkipUnpaired ==
    /\ pc = "listdir"
    /\ fidx < Len(dir)
    /\ IsTextGrid(dir[fidx + 1])
    /\ ~HasAudio(dir[fidx + 1])
    /\ fidx' = fidx + 1
    /\ UNCHANGED <<env, pc, out, wav_file, y, sr, effective_max_freq,
                   intervals, idx, results, loc, bl>>

\* lines 167-180, a .TextGrid with its .wav: the call of extract_features
CallExtract ==
    /\ pc = "listdir"
    /\ fidx < Len(dir)
    /\ IsTextGrid(dir[fidx + 1])
    /\ HasAudio(dir[fidx + 1])
    /\ fidx' = fidx + 1
    /\ wav_file' = dir[fidx + 1][1]
    /\ pc' = "load"
    /\ UNCHANGED <<env, out, y, sr, effective_max_freq, intervals, idx,
                   results, loc, bl>>

\* lines 181-194
WriteRows ==
    /\ pc = "write"
    /\ out' = out \o RowsOf(results)
    /\ pc' = "listdir"
    /\ UNCHANGED <<env, fidx, wav_file, y, sr, effective_max_freq,
                   intervals, idx, results, loc, bl>>

\* the listing is exhausted: the file is closed, process_directory returns
CloseResults ==
    /\ pc = "listdir"
    /\ fidx = Len(dir)
    /\ pc' = "done"
    /\ UNCHANGED <<env, out, fidx, wav_file, y, sr, effective_max_freq,
                   intervals, idx, results, loc, bl>>

Next ==
    \/ OpenResults
    \/ SkipOtherFile
    \/ SkipUnpaired
    \/ CallExtract
    \/ WriteRows
    \/ CloseResults
    \/ ExtractFeatures

\* --------------------------------------------------------------- inputs
\* interval boundaries, in seconds
Times == {R(k, 1600) : k \in {0, 1, 8, 16}}

Labels == {<<>>, <<" ">>, <<"a">>, <<" ", "b", "\n">>}

Intervals ==
    {[start_time |-> s, end_time |-> e, text |-> l] :
        s \in Times, e \in Times, l \in Labels}

\* an interval tier: intervals in time order that do not overlap
TiersOfLen(n) ==
    {tier \in [1..n -> Intervals] :
        /\ \A i \in 1..n : RLt(tier[i].start_time, tier[i].end_time)
        /\ \A i \in 1..(n - 1) : RLe(tier[i].end_time, tier[i + 1].start_time)}

Tiers == UNION {TiersOfLen(n) : n \in 0..MaxIntervals}

SampleRates == {900, 2000}

Quiet(n) == [i \in 1..n |-> 0]

Tone(n) == [i \in 1..n |-> IF i % 2 = 1 THEN 1 ELSE -1]

Step(n) == [i \in 1..n |-> IF i <= 2 THEN 1 ELSE IF i = 3 THEN 0 ELSE -1]

Signals == UNION {{Quiet(n), Tone(n), Step(n)} : n \in {4, MaxLen}}

Audio == [y : Signals, sr : SampleRates]

MaxBin == MaxLen \div 2

\* a spectrum over all bins from the cells of its first three
Spectrum(g) == [k \in 0..MaxBin |-> IF k \in DOMAIN g THEN g[k] ELSE 0]

Spectra == {Spectrum(g) : g \in [0..2 -> (-1)..MaxMag]}

Flat(v) == [k \in 0..MaxBin |-> v]

\* the RMS exponents: from below the 1e-10 floor to MaxDecade decades above it
Levels == (RmsFloorExp - 2)..(RmsFloorExp + MaxDecade)

\* the RMS of a signal grows with its amplitude
LevelMaps ==
    {f \in [1..MaxAmp -> Levels] : \A a \in 1..(MaxAmp - 1) : f[a] <= f[a + 1]}

PlainLib ==
    [cellA |-> Flat(1), cellB |-> Flat(-1), amp |-> 1, share |-> 1,
     level |-> [a \in 1..MaxAmp |-> RmsFloorExp + 1]]

DefaultArgs ==
    [min_freq |-> DefaultMinFreq, max_freq |-> DefaultMaxFreq,
     lp_cutoff |-> DefaultLpCutoff]

\* the program counter and the locals before anything ran
Start(entry) ==
    /\ pc = entry
    /\ out = <<>>
    /\ fidx = 0
    /\ y = <<>>
    /\ sr = 0
    /\ effective_max_freq = RInt(0)
    /\ intervals = <<>>
    /\ idx = 0
    /\ results = <<>>
    /\ loc = NoLocals
    /\ bl = None

\* extract_features called on one file
OneFile(audio, tier) ==
    /\ dir = <<>>
    /\ wavs = [f \in {"s1"} |-> audio]
    /\ grids = [f \in {"s1"} |-> tier]
    /\ wav_file = "s1"
    /\ Start("load")

\* ------------------------------------------------------- specifications
\* run_gui's call of process_directory on a directory of a few files
FileNames == {<<"s1", ".TextGrid">>, <<"s2", ".TextGrid">>, <<"notes", ".txt">>}

Listings ==
    UNION {{l \in [1..n -> FileNames] : \A i, j \in 1..n : i # j => l[i] # l[j]} :
            n \in 0..MaxFiles}

Voiced == [start_time |-> R(0, 1), end_time |-> R(8, 1600), text |-> <<"a">>]

Pause == [start_time |-> R(8, 1600), end_time |-> R(16, 1600), text |-> <<" ">>]

Word == [start_time |-> R(8, 1600), end_time |-> R(16, 1600), text |-> <<"b">>]

Click == [start_time |-> R(0, 1), end_time |-> R(1, 1600), text |-> <<"c">>]

SmallTiers == {<<Voiced, Pause>>, <<Voiced, Word>>, <<Click, Word>>}

Init ==
    /\ dir \in Listings
    /\ \E stems \in SUBSET {"s1", "s2"} :
           wavs \in [stems -> {[y |-> Tone(MaxLen), sr |-> 900]}]
    /\ grids \in [{"s1", "s2"} -> SmallTiers]
    /\ args = DefaultArgs
    /\ lib = PlainLib
    /\ wav_file = None
    /\ Start("open")

Spec == Init /\ [][Next]_vars

\* extract_features on every tier within the bounds
InitTier ==
    /\ \E audio \in Audio, tier \in Tiers : OneFile(audio, tier)
    /\ args = DefaultArgs
    /\ lib \in {PlainLib, [PlainLib EXCEPT !.cellA = Flat(0), !.share = 0]}

SpecTier == InitTier /\ [][ExtractFeatures]_vars

Tone4Tiers == {<<Voiced>>, <<Voiced, Pause>>, <<Click>>}

\* extract_features on a short file, over the spectra the transform may
\* return and the frequency arguments
InitSpectrum ==
    /\ \E audio \in [y : {Tone(4), Tone(MaxLen)}, sr : SampleRates],
          tier \in Tone4Tiers : OneFile(audio, tier)
    /\ args \in [min_freq : {DefaultMinFreq, 225, 600},
                  max_freq : {DefaultMaxFreq, 500},
                  lp_cutoff : {DefaultLpCutoff, 225}]
    /\ \E a \in Spectra, b \in {0, 1, 2} :
           lib = [PlainLib EXCEPT
                    !.cellA = a,
                    !.cellB = IF b = 0 THEN a
                              ELSE IF b = 1 THEN Flat(0) ELSE Flat(MaxMag)]

SpecSpectrum == InitSpectrum /\ [][ExtractFeatures]_vars

\* extract_features on a short file, over the energies feature.rms may
\* return and the harmonic shares effects.harmonic may find
InitEnergy ==
    /\ \E audio \in [y : {Tone(4), Quiet(4)}, sr : SampleRates],
          tier \in Tone4Tiers : OneFile(audio, tier)
    /\ args = DefaultArgs
    /\ \E c \in {Flat(1), Spectrum([k \in 0..2 |-> IF k = 2 THEN 1 ELSE 0])} :
           lib \in [cellA : {c}, cellB : {c}, amp : 1..MaxAmp,
                    share : 0..MaxAmp, level : LevelMaps]

SpecEnergy == InitEnergy /\ [][ExtractFeatures]_vars

\* ------------------------------------------------- what the claims state
\* the program is in the loop body of extract_features, the locals of the
\* interval intervals[idx] assigned
InBody ==
    pc \in {"band_stft", "band_mask", "band_istft", "intensity", "hnr", "zcr",
            "cog_stft", "cog", "append"}

\* extract_features has ended, by return or by an exception
Ended == pc \in {"returned", "raised"}

\* empty or whitespace only
IsBlank(text) == \A i \in DOMAIN text : text[i] \in Whitespace

RECURSIVE Labelled(_)
Labelled(tier) ==
    IF tier = <<>> THEN <<>>
    ELSE (IF IsBlank(Head(tier).text) THEN <<>> ELSE <<Head(tier)>>)
         \o Labelled(Tail(tier))

\* C1: extract_features returns exactly one tuple for each interval whose
\* label is not blank, in the tier's order, and none for a blank one.
C1_OneTuplePerLabelledInterval ==
    Ended =>
        /\ Len(results) = Len(Labelled(intervals))
        /\ \A j \in 1..Len(results) : results[j][2] = Labelled(intervals)[j].text

\* C2: a labelled interval whose segment has no samples is not an error: the
\* transform does not raise and the interval yields the sentinel values.
C2_EmptySegmentYieldsSentinels ==
    /\ ~(pc = "raised" /\ Len(ViewOf(y, loc.segment)) = 0)
    /\ (pc = "append" /\ Len(ViewOf(y, loc.segment)) = 0) =>
           /\ loc.intensity = SilenceDb
           /\ loc.zcr = RInt(0)
           /\ loc.cog = RInt(0)

\* the samples of signal with 0-based index in [from, to)
Range(signal, from, to) ==
    [j \in 1..Max(0, Min(to, Len(signal)) - Min(from, Len(signal))) |->
        signal[from + j]]

\* the largest integer not above x
Floor(x) == CHOOSE n \in (-1)..(x.n + 1) : n * x.d <= x.n /\ x.n < (n + 1) * x.d

\* the integer nearest to x, the even one of two
Nearest(x) ==
    CHOOSE n \in (-1)..(x.n + 1) :
        /\ Abs(2 * (n * x.d - x.n)) <= x.d
        /\ (Abs(2 * (n * x.d - x.n)) = x.d => n % 2 = 0)

\* C3 as stated: both boundaries of the segment are round(time * sample_rate).
C3_BoundariesRounded ==
    InBody =>
        LET from == Nearest(RMul(intervals[idx].start_time, RInt(sr)))
            to == Nearest(RMul(intervals[idx].end_time, RInt(sr)))
        IN  /\ loc.start_sample = from
            /\ loc.end_sample = to
            /\ ViewOf(y, loc.segment) = Range(y, from, to)

\* C3 as amended: both boundaries are time * sample_rate truncated to an
\* integer, and the segment is that range of the signal, cut at its end.
C3_BoundariesTruncated ==
    InBody =>
        LET from == Floor(RMul(intervals[idx].start_time, RInt(sr)))
            to == Floor(RMul(intervals[idx].end_time, RInt(sr)))
        IN  /\ loc.start_sample = from
            /\ loc.end_sample = to
            /\ ViewOf(y, loc.segment) = Range(y, from, to)

\* a segment with samples whose start is truncated where rounding differs
C3_Witness ==
    /\ pc = "append"
    /\ loc.start_sample # Nearest(RMul(loc.start_time, RInt(sr)))
    /\ Len(ViewOf(y, loc.segment)) >= 4

\* the segment of the current interval, read through the view
Segment == ViewOf(y, loc.segment)

\* min(limit, sr / 2), doubled to stay an integer
TwiceLimit(limit) == IF 2 * limit <= sr THEN 2 * limit ELSE sr

\* C4: after the masking step a bin is zero in every frame if its frequency
\* exceeds min(lp_cutoff, sample_rate / 2), and every other bin keeps the
\* value the forward transform produced.
C4_MaskZeroesAboveCutoff ==
    pc = "band_istft" =>
        LET n == bl.n_fft_value
            forward == Stft(Segment, n)
            above(k) == 2 * k * sr > n * TwiceLimit(args.lp_cutoff)
        IN  \A k \in 0..(n \div 2) : \A t \in DOMAIN forward[k] :
                bl.stft_complex[k][t] = IF above(k) THEN 0 ELSE forward[k][t]

\* a frame with energy above the cutoff and energy exactly at the cutoff
C4_Witness ==
    /\ pc = "band_istft"
    /\ LET n == bl.n_fft_value
           forward == Stft(Segment, n)
       IN  /\ \E k \in 0..(n \div 2) :
                  /\ 2 * k * sr > n * TwiceLimit(args.lp_cutoff)
                  /\ forward[k][1] # 0
           /\ \E k \in 0..(n \div 2) :
                  /\ 2 * k * sr = n * TwiceLimit(args.lp_cutoff)
                  /\ forward[k][1] # 0

\* the decimal exponent of an RMS value once raised to at least 1e-10
FlooredExp(rms) == IF rms.m = 0 \/ rms.e < RmsFloorExp THEN RmsFloorExp ELSE rms.e

\* the locals of the HNR computation are assigned
AfterHnr == pc \in {"zcr", "cog_stft", "cog", "append"}

\* C5: hnr is at most 20 dB: both RMS values are raised to at least 1e-10,
\* 10 * log10 of their ratio is capped at 20 and has no lower clamp, so hnr
\* is 0 when both are floored.
C5_HnrFlooredAndCapped ==
    /\ \A j \in 1..Len(results) : results[j][4] <= HnrCapDb
    /\ AfterHnr =>
           LET harm == Rms(loc.harmonic_lp)
               noise == Rms(loc.residual_lp)
               db == 10 * (FlooredExp(harm) - FlooredExp(noise))
           IN  /\ loc.rms_harm = Pow10(FlooredExp(harm))
               /\ loc.rms_noise = Pow10(FlooredExp(noise))
               /\ loc.hnr = IF db > HnrCapDb THEN HnrCapDb ELSE db
               /\ loc.hnr <= HnrCapDb
               /\ (FlooredExp(harm) = RmsFloorExp /\ FlooredExp(noise) = RmsFloorExp)
                      => loc.hnr = 0

\* a ratio above 20 dB, capped in the tuple about to be appended
C5_Witness ==
    /\ pc = "append"
    /\ 10 * (FlooredExp(Rms(loc.harmonic_lp)) - FlooredExp(Rms(loc.residual_lp)))
           > HnrCapDb
    /\ loc.hnr = HnrCapDb

\* the locals of the intensity computation are assigned
AfterIntensity == pc \in {"hnr", "zcr", "cog_stft", "cog", "append"}

\* an exception can only come from a transform of fewer than 4 samples
OnlyStftRaises == pc = "raised" => Len(Segment) < 4

\* C6: intensity is exactly -80 when the mean RMS of the band-limited
\* segment is not above 0, as when segment_lp is all zero, and 10 * log10 of
\* it otherwise; the -80 case raises no error.
C6_IntensityOrSilence ==
    /\ AfterIntensity =>
           LET r == Rms(loc.segment_lp)
           IN  /\ loc.rms_lp = r
               /\ r.m = 0 => loc.intensity = SilenceDb
               /\ r.m # 0 => loc.intensity = 10 * r.e
               /\ Silent(loc.segment_lp) => loc.intensity = SilenceDb
    /\ OnlyStftRaises

\* a segment with sound whose band-limited version is silent
C6_Witness ==
    /\ pc = "append"
    /\ ~Silent(Segment)
    /\ Silent(loc.segment_lp)
    /\ loc.intensity = SilenceDb

\* the bins of the centroid: min_freq <= k * sr / n <= min(max_freq, sr / 2)
CogBins(n) ==
    {k \in 0..(n \div 2) :
        /\ args.min_freq * n <= k * sr
        /\ 2 * k * sr <= n * TwiceLimit(args.max_freq)}

\* the squared sum over the frames of a bin's magnitudes: its power times
\* the squared number of frames
BinPower(k) ==
    LET sum == SumTo(loc.stft_mag[k], Len(loc.stft_mag[k])) IN sum * sum

RECURSIVE PowerUpTo(_, _)
PowerUpTo(bins, k) ==
    IF k < 0 THEN 0
    ELSE (IF k \in bins THEN BinPower(k) ELSE 0) + PowerUpTo(bins, k - 1)

RECURSIVE MomentUpTo(_, _)
MomentUpTo(bins, k) ==
    IF k < 0 THEN 0
    ELSE (IF k \in bins THEN k * BinPower(k) ELSE 0) + MomentUpTo(bins, k - 1)

TotalPower(n) == PowerUpTo(CogBins(n), n \div 2)

Moment(n) == MomentUpTo(CogBins(n), n \div 2)

\* C7: the centroid uses only the bins with min_freq <= f <= min(max_freq,
\* sample_rate / 2); cog is 0.0 when there is no such bin or their summed
\* power is not above 0, and sum(f_i * power_i) / sum(power_i) otherwise.
C7_CentroidOfSelectedBins ==
    pc = "append" =>
        LET n == loc.n_fft_value
        IN  IF CogBins(n) = {} \/ TotalPower(n) <= 0
            THEN loc.cog = RInt(0)
            ELSE loc.cog.n * n * TotalPower(n) = loc.cog.d * sr * Moment(n)

\* a centroid between two bins with power, a third bin left out by min_freq
C7_Witness ==
    /\ pc = "append"
    /\ LET n == loc.n_fft_value
       IN  /\ \E k \in (0..(n \div 2)) \ CogBins(n) :
                  BinPower(k) > 0 /\ k * sr < args.min_freq * n
           /\ Cardinality({k \in CogBins(n) : BinPower(k) > 0}) >= 2
           /\ \A k \in CogBins(n) : loc.cog # R(k * sr, n)

\* C10: cog is 0.0 or lies in [min_freq, min(max_freq, sample_rate / 2)];
\* it is not negative when min_freq >= 0, and log1p(cog) is defined.
C10_CentroidInRange ==
    /\ \A j \in 1..Len(results) :
           LET cog == results[j][7]
           IN  /\ \/ cog = RInt(0)
                  \/ /\ args.min_freq * cog.d <= cog.n
                     /\ 2 * cog.n <= TwiceLimit(args.max_freq) * cog.d
               /\ args.min_freq >= 0 => cog.n >= 0
               /\ cog.n > -cog.d
               /\ results[j][8] = Log1p(cog)
    /\ OnlyStftRaises

\* a centroid strictly inside a range that starts above 0 and ends below
\* the Nyquist frequency
C10_Witness ==
    /\ pc = "returned"
    /\ args.min_freq > 0
    /\ 2 * args.max_freq < sr
    /\ \E j \in 1..Len(results) :
           LET cog == results[j][7]
           IN  /\ args.min_freq * cog.d < cog.n
               /\ cog.n < args.max_freq * cog.d

\* the samples of the file on disk that an interval covers
Original(file, interval) ==
    Range(wavs[file].y,
          Floor(RMul(interval.start_time, RInt(wavs[file].sr))),
          Floor(RMul(interval.end_time, RInt(wavs[file].sr))))

Magnitudes(frame) ==
    [k \in DOMAIN frame |-> [t \in DOMAIN frame[k] |-> Abs(frame[k][t])]]

\* the tuple of one interval of a file, computed on its own from the samples
\* on disk
FeaturesOf(file, interval) ==
    LET seg == Original(file, interval)
        rate == wavs[file].sr
        nb == NfftValue(BandNfft, Len(seg))
        lp == Istft(ZeroOut(Stft(seg, nb),
                            BandMask(FftFrequencies(rate, nb),
                                     EffectiveCutoff(args.lp_cutoff, rate))))
        harm == Harmonic(lp)
        resid == [i \in DOMAIN lp |-> lp[i] - harm[i]]
        nc == NfftValue(CogNfft, Len(seg))
        mag == Magnitudes(Stft(seg, nc))
        freqs == FftFrequencies(rate, nc)
        sel == Selected(CogMask(freqs, args.min_freq,
                                RMin(RInt(args.max_freq), R(rate, 2))))
        cog == Centroid([i \in DOMAIN sel |-> mag[sel[i]]],
                        [i \in DOMAIN sel |-> freqs[sel[i]]])
    IN  <<file, interval.text, Intensity(Rms(lp)),
          Hnr(FloorRms(Rms(harm)), FloorRms(Rms(resid))),
          RSub(interval.end_time, interval.start_time),
          ZeroCrossingRate(seg), cog, Log1p(cog)>>

TuplesOf(file) ==
    [j \in 1..Len(Labelled(grids[file])) |-> FeaturesOf(file, Labelled(grids[file])[j])]

\* C9: computing the features of an interval leaves the loaded signal and
\* the unfiltered segment as they were: the zero-crossing rate and the
\* centroid transform are computed on the original samples, and each tuple
\* is the one its interval gives on its own, whatever was processed before.
C9_IntervalsIndependent ==
    /\ pc \notin {"open", "listdir", "load", "done"} => y = wavs[wav_file].y
    /\ InBody => Segment = Original(wav_file, intervals[idx])
    /\ pc \in {"cog_stft", "cog", "append"} =>
           loc.zcr = ZeroCrossingRate(Original(wav_file, intervals[idx]))
    /\ pc \in {"cog", "append"} =>
           loc.stft_mag = Magnitudes(Stft(Original(wav_file, intervals[idx]),
                                          loc.n_fft_value))
    /\ \A j \in 1..Len(results) : results[j] = TuplesOf(wav_file)[j]

\* two tuples of one file whose zero-crossing rates differ
C9_Witness ==
    /\ pc = "returned"
    /\ Len(results) = 2
    /\ results[1][6] # results[2][6]

\* the rows of the paired annotation files among the first k of the listing
RECURSIVE RowsUpTo(_)
RowsUpTo(k) ==
    IF k = 0 THEN <<>>
    ELSE RowsUpTo(k - 1)
         \o (IF dir[k][2] = ".TextGrid" /\ dir[k][1] \in DOMAIN wavs
             THEN [j \in DOMAIN TuplesOf(dir[k][1]) |-> Row(TuplesOf(dir[k][1])[j])]
             ELSE <<>>)

\* the rows written so far are the header and the rows of the tuples returned
C8_RowsWritten ==
    /\ pc \in {"listdir", "done"} => out = <<Header>> \o RowsUpTo(fidx)
    /\ pc \notin {"open", "listdir", "done"} =>
           out = <<Header>> \o RowsUpTo(fidx - 1)
    /\ pc = "write" => results = TuplesOf(wav_file)
    /\ pc = "done" => fidx = Len(dir)
    /\ pc = "raised" => dir[fidx][2] = ".TextGrid" /\ dir[fidx][1] \in DOMAIN wavs

\* the next file name is an annotation file without its audio file
C8_Unpaired ==
    /\ pc = "listdir"
    /\ fidx < Len(dir)
    /\ dir[fidx + 1][2] = ".TextGrid"
    /\ dir[fidx + 1][1] \notin DOMAIN wavs

\* C8: process_directory writes the header row, then one row per tuple
\* returned for the annotation files that have their audio file; a file
\* without it adds no row and does not stop the files after it.
C8_HeaderThenRowPerTuple ==
    /\ []C8_RowsWritten
    /\ [][C8_Unpaired => pc' = "listdir" /\ fidx' = fidx + 1 /\ out' = out]_vars

\* the listing is done: a skipped annotation file, then the rows of a
\* paired one
C8_Witness ==
    /\ pc = "done"
    /\ Len(dir) = 2
    /\ dir[1][2] = ".TextGrid"
    /\ dir[1][1] \notin DOMAIN wavs
    /\ Len(out) = 3

====
